---- MODULE Spec2Model ----
(***************************************************************************)
(* Rebound scanner (src/app3.py): the window analyzer, the 21d drawdown    *)
(* classifier and the per-symbol pipeline of class WebScanner.             *)
(*                                                                         *)
(* Times are seconds.  A kline carries its open time in milliseconds as    *)
(* the data source delivers it; a candle carries the time the code derives *)
(* from it.  Prices are integers (the floats the code parses), and a       *)
(* percentage is the exact quotient num/den kept as a pair, compared by    *)
(* cross-multiplication: floating-point rounding is not modelled.          *)
(***************************************************************************)
EXTENDS Integers, Sequences, FiniteSets, TLC

VARIABLES
    klines,          \* response of get_klines handed to the analyzer under test
    lookback_hours,  \* lookback of the analyzer call under test
    now,             \* datetime.now() read by the call
    current_price,   \* current price handed to analyze_21d_with_drawdown
    window_out,      \* outcome of the last analyze_time_window call
    drawdown_out,    \* outcome of the last analyze_21d_with_drawdown call
    drawdown_prev,   \* outcome of the call before it
    src,             \* what the data source answers for the symbol analysed
    cfg,             \* configuration of the WebScanner
    pair_out,        \* outcome of the analyze_pair call
    source,          \* what the data source answers, per symbol
    pc,              \* where each scan request stands in the /scan handler
    req_cfg,         \* the form each request posted
    pairs,           \* pairs of each request's WebScanner.scan
    task,            \* state of each request's analyze_pair futures, per symbol
    results,         \* results of each request's WebScanner.scan
    processed,       \* processed of each request's WebScanner.scan
    response,        \* what each request answered
    scan_progress,   \* global scan_progress
    latest_results,  \* global latest_results
    last_scan_time,  \* global last_scan_time: 0 is None, then the clock read
    scan_lock,       \* holder of scan_lock, 0 when free
    reader_pc,       \* where the download handler stands
    seen             \* the list the download handler wrote out

pairVars == <<src, cfg, pair_out>>

requestVars == <<pc, req_cfg, pairs, task, results, processed, response>>

storeVars == <<scan_progress, latest_results, last_scan_time, scan_lock>>

readerVars == <<reader_pc, seen>>

scanVars == <<source, requestVars, storeVars, readerVars>>

vars == <<klines, lookback_hours, now, current_price, window_out, drawdown_out,
          drawdown_prev, src, cfg, pair_out, scanVars>>

\* Python's None as a returned value, and the outcome of a call not yet made
None == [none |-> TRUE]
Pending == [site |-> "pending", value |-> None]

\* get_klines returning None or an empty list: both fail `not klines`
NoKlines == <<>>

\* a ticker whose lastPrice or quoteVolume float() cannot parse
MalformedTicker == [malformed |-> TRUE]

\* a form with a number float() cannot parse
MalformedConfig == [malformed |-> TRUE]

\* the module as loaded (lines 20-23), no request received
ProgressIdle == [current |-> 0, total |-> 0, status |-> "idle"]

ScanIdle ==
    /\ source = None
    /\ pc = None
    /\ req_cfg = None
    /\ pairs = None
    /\ task = None
    /\ results = None
    /\ processed = None
    /\ response = None
    /\ scan_progress = ProgressIdle
    /\ latest_results = <<>>
    /\ last_scan_time = 0
    /\ scan_lock = 0
    /\ reader_pc = "idle"
    /\ seen = None

(***************************************************************************)
(* Program constants                                                       *)
(***************************************************************************)
MinKlines == 10
MinWindowCandles == 5
MsPerSecond == 1000
SecondsPerHour == 3600
SecondsPerDay == 86400
SecondsPerYear == 31536000
LongFormatHours == 24
CriticalPct == 30
HighPct == 20
MediumPct == 10
LowPct == 5
MinRecentKlines == 4
MinRecentCandles == 4
DefaultMinVolume == 1400000
MaxWorkers == 25
ProgressEvery == 10
ResponseLimit == 100
MantissaBits == 53
KlinesLimitCap == 1000

(***************************************************************************)
(* Bounds of the inputs                                                    *)
(***************************************************************************)
MaxKlines == 10      \* longest response
MaxFree == 5         \* newest candles whose prices vary freely
MaxSpan == 6         \* longest lookback, in candle intervals
MaxRecent == 4       \* longest response to the recent-window fetch
MaxExtra == 2        \* symbols listed beyond max_workers
CandleHours == 4     \* interval of the candles the data source serves ("4h")

CandleSecs == CandleHours * SecondsPerHour

(***************************************************************************)
(* Percentages: exact quotients                                            *)
(***************************************************************************)
Pct(n, d) == [num |-> n, den |-> d]
PctLT(p, q) == p.num * q.den < q.num * p.den
PctLE(p, q) == p.num * q.den <= q.num * p.den
PctEQ(p, q) == p.num * q.den = q.num * p.den
PctOf(k) == Pct(k, 1)

(***************************************************************************)
(* Sequence helpers that follow Python's list semantics                    *)
(***************************************************************************)
RECURSIVE InsertByTime(_, _)
InsertByTime(c, s) ==
    IF s = <<>> THEN <<c>>
    ELSE IF c.time < Head(s).time THEN <<c>> \o s
    ELSE <<Head(s)>> \o InsertByTime(c, Tail(s))

\* list.sort(key=lambda x: x['time']): stable, ascending
RECURSIVE SortByTime(_)
SortByTime(s) ==
    IF s = <<>> THEN <<>>
    ELSE InsertByTime(s[Len(s)], SortByTime(SubSeq(s, 1, Len(s) - 1)))

\* min(seq, key=low): the first element holding the least low
RECURSIVE MinByLow(_)
MinByLow(s) ==
    IF Len(s) = 1 THEN s[1]
    ELSE LET m == MinByLow(Tail(s))
         IN IF s[1].low <= m.low THEN s[1] ELSE m

\* max(seq, key=high): the first element holding the greatest high
RECURSIVE MaxByHigh(_)
MaxByHigh(s) ==
    IF Len(s) = 1 THEN s[1]
    ELSE LET m == MaxByHigh(Tail(s))
         IN IF s[1].high >= m.high THEN s[1] ELSE m

(***************************************************************************)
(* analyze_time_window                                                     *)
(***************************************************************************)
\* datetime.fromtimestamp(int(k[0]) / 1000) and the float() parses
to_candle(k) == [time |-> k.open_ms \div MsPerSecond, high |-> k.high, low |-> k.low]

to_candles_as_delivered(ks) == [i \in 1..Len(ks) |-> to_candle(ks[i])]

to_candles(ks) == SortByTime([i \in 1..Len(ks) |-> to_candle(ks[i])])

\* cutoff_time = now - timedelta(hours=lookback_hours)
cutoff_time(t, hours) == t - hours * SecondsPerHour

in_window(c, cutoff) == c.time >= cutoff

window_candles(ks, hours, t) ==
    SelectSeq(to_candles(ks), LAMBDA c : in_window(c, cutoff_time(t, hours)))

\* a candle at the low's own timestamp counts as following it
is_after_inclusive(c, low_time) == c.time >= low_time

is_after(c, low_time) == c.time > low_time

\* every candle but the low's own counts as following it
candles_beside_low(wc, low_time) == SelectSeq(wc, LAMBDA c : c.time /= low_time)

candles_after_low(wc, low_time) == SelectSeq(wc, LAMBDA c : is_after(c, low_time))

\* a response of exactly the minimum length rejected too
too_few_klines_11(ks) == ks = NoKlines \/ Len(ks) <= MinKlines

too_few_klines(ks) == ks = NoKlines \/ Len(ks) < MinKlines

\* the window minimum off by one
too_few_in_window_4(wc) == Len(wc) < MinWindowCandles - 1

too_few_in_window(wc) == Len(wc) < MinWindowCandles

\* the move measured against the high
price_change_of_high(high_price, low_price) == Pct((high_price - low_price) * 100, high_price)

price_change(high_price, low_price) == Pct((high_price - low_price) * 100, low_price)

\* strftime('%H:%M') / strftime('%m/%d %H:%M'): minute of the day / of the year
strftime_time(t, hours) ==
    IF hours >= LongFormatHours
    THEN (t % SecondsPerYear) \div 60
    ELSE (t % SecondsPerDay) \div 60

\* The outcome names the return statement taken (site) and the value
\* returned.  The dict of the code carries the two formatted times; the
\* anchors' datetimes are kept beside them as low_at / high_at.
analyze_time_window(ks, hours, t) ==
    IF too_few_klines(ks) THEN [site |-> "few_klines", value |-> None]
    ELSE LET wc == window_candles(ks, hours, t) IN
    IF too_few_in_window(wc) THEN [site |-> "few_in_window", value |-> None]
    ELSE LET absolute_low == MinByLow(wc)
             after == candles_after_low(wc, absolute_low.time) IN
    IF after = <<>> THEN [site |-> "none_after_low", value |-> None]
    ELSE LET highest_after_low == MaxByHigh(after) IN
    IF absolute_low.low <= 0 THEN [site |-> "low_not_positive", value |-> None]
    ELSE [site |-> "result",
          value |-> [low_price |-> absolute_low.low,
                     low_time |-> strftime_time(absolute_low.time, hours),
                     high_price |-> highest_after_low.high,
                     high_time |-> strftime_time(highest_after_low.time, hours),
                     price_change |-> price_change(highest_after_low.high, absolute_low.low),
                     low_at |-> absolute_low.time,
                     high_at |-> highest_after_low.time]]

(***************************************************************************)
(* analyze_21d_with_drawdown                                               *)
(***************************************************************************)
drawdown_pct(high_price, price) == Pct((high_price - price) * 100, high_price)

\* the top tier entered only above its threshold
drawdown_flag_strict(dd) ==
    IF PctLT(PctOf(CriticalPct), dd) THEN "CRITICAL"
    ELSE IF PctLE(PctOf(HighPct), dd) THEN "HIGH"
    ELSE IF PctLE(PctOf(MediumPct), dd) THEN "MEDIUM"
    ELSE IF PctLE(PctOf(LowPct), dd) THEN "LOW"
    ELSE "MINIMAL"

\* the if/elif chain over drawdown_21d
drawdown_flag(dd) ==
    IF PctLE(PctOf(CriticalPct), dd) THEN "CRITICAL"
    ELSE IF PctLE(PctOf(HighPct), dd) THEN "HIGH"
    ELSE IF PctLE(PctOf(MediumPct), dd) THEN "MEDIUM"
    ELSE IF PctLE(PctOf(LowPct), dd) THEN "LOW"
    ELSE "MINIMAL"

analyze_21d_with_drawdown(ks, hours, t, price) ==
    IF too_few_klines(ks) THEN [site |-> "few_klines", value |-> None]
    ELSE LET wc == window_candles(ks, hours, t) IN
    IF too_few_in_window(wc) THEN [site |-> "few_in_window", value |-> None]
    ELSE LET absolute_high == MaxByHigh(wc) IN
    IF absolute_high.high <= 0 THEN [site |-> "high_not_positive", value |-> None]
    ELSE LET dd == drawdown_pct(absolute_high.high, price) IN
         [site |-> "result",
          value |-> [high_21d_price |-> absolute_high.high,
                     high_21d_time |-> strftime_time(absolute_high.time, LongFormatHours),
                     drawdown_21d |-> dd,
                     drawdown_flag |-> drawdown_flag(dd)]]

(***************************************************************************)
(* format_time_display and analyze_pair                                    *)
(***************************************************************************)
\* the label as the numbers it prints: days and hours, hours and minutes,
\* or minutes; secs is the elapsed time, hours * 3600
format_time_display(secs) ==
    IF secs >= 24 * SecondsPerHour
    THEN LET days == secs \div (24 * SecondsPerHour)
             remaining_hours == (secs % (24 * SecondsPerHour)) \div SecondsPerHour
         IN IF remaining_hours > 0 THEN <<days, "d", remaining_hours, "h">> ELSE <<days, "d">>
    ELSE IF secs >= SecondsPerHour
    THEN LET whole_hours == secs \div SecondsPerHour
             minutes == (secs % SecondsPerHour) \div 60
         IN IF minutes > 0 THEN <<whole_hours, "h", minutes, "m">> ELSE <<whole_hours, "h">>
    ELSE <<secs \div 60, "m">>

\* the 24h volume filter rejecting the minimum itself
volume_too_low_or_equal(volume_24h, c) == volume_24h <= c.min_volume_24h

volume_too_low(volume_24h, c) == volume_24h < c.min_volume_24h

\* the rebound filter rejecting the minimum itself
rebound_too_small_or_equal(rebound_pct, c) == PctLE(rebound_pct, PctOf(c.min_price_change))

rebound_too_small(rebound_pct, c) == PctLT(rebound_pct, PctOf(c.min_price_change))

\* the pullback filter rejecting the maximum itself
drawdown_too_deep_or_equal(drawdown, c) == PctLE(PctOf(c.max_drawdown), drawdown)

drawdown_too_deep(drawdown, c) == PctLT(PctOf(c.max_drawdown), drawdown)

\* the span compared in days where the lookback is in hours
span_too_long_days(time_diff, c) == time_diff > c.lookback_hours * SecondsPerDay

\* time_diff_hours > self.lookback_hours, time_diff in seconds
span_too_long(time_diff, c) == time_diff > c.lookback_hours * SecondsPerHour

too_few_recent_klines(ks) == ks = NoKlines \/ Len(ks) < MinRecentKlines

too_few_recent(rc) == Len(rc) < MinRecentCandles

\* a gate that would reject a selected horizon risen by less than the minimum
filter_rejects_below_minimum(c, analysis_48h, analysis_96h, analysis_21d) ==
    /\ c.filter_enabled
    /\ \/ c.filter_timeframe = "48h" /\ rebound_too_small(analysis_48h.price_change, c)
       \/ c.filter_timeframe = "96h" /\ rebound_too_small(analysis_96h.price_change, c)
       \/ c.filter_timeframe = "21d" /\ rebound_too_small(analysis_21d.price_change, c)

\* the gate on the selected horizon, after all three analyses have succeeded
filter_rejects(c, analysis_48h, analysis_96h, analysis_21d) ==
    /\ c.filter_enabled
    /\ \/ c.filter_timeframe = "48h" /\ analysis_48h = None
       \/ c.filter_timeframe = "96h" /\ analysis_96h = None
       \/ c.filter_timeframe = "21d" /\ analysis_21d = None

Rejected(where) == [site |-> where, value |-> None]

\* s: the data source's answers for the symbol (ticker, the klines of the
\* five fetches); c: the configuration; t: the clock
analyze_pair(s, c, t) ==
    IF s.ticker = None THEN Rejected("no_ticker")
    ELSE IF s.ticker = MalformedTicker THEN Rejected("exception")
    ELSE LET price == s.ticker.lastPrice
             volume_24h == s.ticker.quoteVolume IN
    IF volume_too_low(volume_24h, c) THEN Rejected("volume")
    ELSE LET analysis_48h == analyze_time_window(s.k48, c.lookback_48h_hours, t).value IN
    IF analysis_48h = None THEN Rejected("no_48h")
    ELSE LET analysis_96h == analyze_time_window(s.k96, c.lookback_96h_hours, t).value IN
    IF analysis_96h = None THEN Rejected("no_96h")
    ELSE LET analysis_21d == analyze_time_window(s.k21, c.lookback_21d_hours, t).value IN
    IF analysis_21d = None THEN Rejected("no_21d")
    ELSE LET analysis_21d_drawdown ==
                 analyze_21d_with_drawdown(s.kdd, c.lookback_21d_hours, t, price).value IN
    IF analysis_21d_drawdown = None THEN Rejected("no_drawdown")
    ELSE IF filter_rejects(c, analysis_48h, analysis_96h, analysis_21d) THEN Rejected("filter")
    ELSE IF too_few_recent_klines(s.recent) THEN Rejected("few_klines")
    ELSE LET recent_candles == window_candles(s.recent, c.lookback_hours, t) IN
    IF too_few_recent(recent_candles) THEN Rejected("few_recent")
    ELSE LET absolute_low == MinByLow(recent_candles)
             after == candles_after_low(recent_candles, absolute_low.time) IN
    IF after = <<>> THEN Rejected("none_after_low")
    ELSE LET highest_after_low == MaxByHigh(after)
             low_price == absolute_low.low
             high_price == highest_after_low.high
             time_diff == highest_after_low.time - absolute_low.time IN
    IF span_too_long(time_diff, c) THEN Rejected("time_span")
    ELSE IF low_price <= 0 THEN Rejected("low_not_positive")
    ELSE LET rebound_pct == price_change(high_price, low_price) IN
    IF rebound_too_small(rebound_pct, c) THEN Rejected("min_price_change")
    ELSE IF high_price <= 0 THEN Rejected("high_not_positive")
    ELSE LET drawdown == drawdown_pct(high_price, price) IN
    IF drawdown_too_deep(drawdown, c) THEN Rejected("max_drawdown")
    ELSE [site |-> "record",
          value |-> [symbol |-> s.symbol,
                     current_price |-> price,
                     rebound_pct |-> rebound_pct,
                     rebound_hours |-> Pct(time_diff, SecondsPerHour),
                     drawdown_from_high |-> drawdown,
                     drawdown_21d |-> analysis_21d_drawdown.drawdown_21d,
                     drawdown_flag |-> analysis_21d_drawdown.drawdown_flag,
                     price_change_48h |-> analysis_48h.price_change,
                     price_change_96h |-> analysis_96h.price_change,
                     price_change_21d |-> analysis_21d.price_change,
                     volume_24h |-> volume_24h,
                     low_price |-> low_price,
                     low_time |-> strftime_time(absolute_low.time, 0),
                     high_price |-> high_price,
                     high_time |-> strftime_time(highest_after_low.time, 0),
                     low_48h_price |-> analysis_48h.low_price,
                     low_48h_time |-> analysis_48h.low_time,
                     high_48h_price |-> analysis_48h.high_price,
                     high_48h_time |-> analysis_48h.high_time,
                     low_96h_price |-> analysis_96h.low_price,
                     low_96h_time |-> analysis_96h.low_time,
                     high_96h_price |-> analysis_96h.high_price,
                     high_96h_time |-> analysis_96h.high_time,
                     low_21d_price |-> analysis_21d.low_price,
                     low_21d_time |-> analysis_21d.low_time,
                     high_21d_price |-> analysis_21d.high_price,
                     high_21d_time |-> analysis_21d.high_time,
                     high_21d_for_drawdown |-> analysis_21d_drawdown.high_21d_price,
                     high_21d_time_for_drawdown |-> analysis_21d_drawdown.high_21d_time,
                     time_display |-> format_time_display(time_diff),
                     candles_count |-> Len(recent_candles),
                     scan_time |-> t % SecondsPerDay]]

(***************************************************************************)
(* Inputs: responses of the data source                                    *)
(***************************************************************************)
\* <<low, high>> of a candle
PriceRows == {<<0, 19>>, <<16, 19>>, <<16, 20>>, <<18, 19>>, <<18, 20>>}
\* the older history: a low and a high that no newer candle goes beyond
FillRow == <<16, 20>>
Shapes == {"distinct", "repeat"}
Orders == {"asc", "desc"}

\* index of the interval the i-th kline of n opens at
TimeIdx(i, n, shape) == IF shape = "repeat" /\ i = n THEN n - 1 ELSE i

Kline(idx, row) == [open_ms |-> idx * CandleSecs * MsPerSecond, low |-> row[1], high |-> row[2]]

Reverse(s) == [i \in 1..Len(s) |-> s[Len(s) + 1 - i]]

\* n klines: the oldest carry FillRow, the newest Len(free) the free rows
\* and the newest opens at interval `last`
SeriesEndingAt(last, n, free, shape, order) ==
    LET f == Len(free)
        asc == [i \in 1..n |-> Kline(last - n + TimeIdx(i, n, shape),
                                     IF i <= n - f THEN FillRow ELSE free[i - (n - f)])]
    IN IF order = "asc" THEN asc ELSE Reverse(asc)

Series(n, free, shape, order) == SeriesEndingAt(n, n, free, shape, order)

FreeRows == [1..MaxFree -> PriceRows]

KlineLengths == (MinKlines - 1)..MaxKlines

SeriesOf(n) ==
    {Series(n, free, shape, order) :
        free \in FreeRows, shape \in Shapes, order \in Orders}

\* lookbacks that keep one candle fewer than the minimum up to MaxSpan + 1
Lookbacks == {CandleHours * k : k \in (MinWindowCandles - 2)..MaxSpan}

\* the clock reads the open time of the newest of n intervals served
ClockAt(n) == n * CandleSecs

(***************************************************************************)
(* Specification of the window analyzer alone                              *)
(***************************************************************************)
InitWindow ==
    /\ \E n \in KlineLengths :
          /\ klines \in SeriesOf(n) \cup {NoKlines}
          /\ now = ClockAt(n)
    /\ lookback_hours \in Lookbacks
    /\ current_price = 0
    /\ window_out = Pending
    /\ drawdown_out = Pending
    /\ drawdown_prev = Pending
    /\ src = None
    /\ cfg = None
    /\ pair_out = Pending
    /\ ScanIdle

CallAnalyzeTimeWindow ==
    /\ window_out = Pending
    /\ window_out' = analyze_time_window(klines, lookback_hours, now)
    /\ UNCHANGED <<klines, lookback_hours, now, current_price, drawdown_out, drawdown_prev>>
    /\ UNCHANGED <<pairVars, scanVars>>

NextWindow == CallAnalyzeTimeWindow

SpecWindow == InitWindow /\ [][NextWindow]_vars

(***************************************************************************)
(* Specification of the drawdown classifier alone: the extended-horizon    *)
(* series stays, the ticker price changes from call to call                *)
(***************************************************************************)
DrawdownRows == {<<16, 19>>, <<18, 20>>}
CurrentPrices == 12..21

\* a series that never traded above zero
Flat(n) == [i \in 1..n |-> Kline(i, <<0, 0>>)]

DrawdownSeriesOf(n) ==
    {Series(n, free, "distinct", "asc") : free \in [1..MaxFree -> DrawdownRows]}
        \cup {Flat(n), NoKlines}

InitDrawdown ==
    /\ \E n \in KlineLengths :
          /\ klines \in DrawdownSeriesOf(n)
          /\ now = ClockAt(n)
    /\ lookback_hours \in Lookbacks
    /\ current_price = 0
    /\ window_out = Pending
    /\ drawdown_out = Pending
    /\ drawdown_prev = Pending
    /\ src = None
    /\ cfg = None
    /\ pair_out = Pending
    /\ ScanIdle

CallAnalyze21dWithDrawdown ==
    \E price \in CurrentPrices :
        /\ current_price' = price
        /\ drawdown_prev' = drawdown_out
        /\ drawdown_out' = analyze_21d_with_drawdown(klines, lookback_hours, now, price)
        /\ UNCHANGED <<klines, lookback_hours, now, window_out>>
        /\ UNCHANGED <<pairVars, scanVars>>

NextDrawdown == CallAnalyze21dWithDrawdown

SpecDrawdown == InitDrawdown /\ [][NextDrawdown]_vars

(***************************************************************************)
(* Specification of analyze_pair alone: one symbol, every answer of the    *)
(* data source and every configuration of the input sets                   *)
(***************************************************************************)
RecentRows == {<<0, 19>>, <<15, 20>>, <<16, 19>>, <<16, 20>>}
TickerPrices == {17, 18, 21}
TickerVolumes == {DefaultMinVolume - 1, DefaultMinVolume, DefaultMinVolume + 1}

\* every series of the symbol ends at the interval the clock reads
Newest == MinKlines

RecentSeriesOf(n) ==
    {SeriesEndingAt(Newest, n, free, "distinct", "asc") : free \in [1..n -> RecentRows]}

RecentResponses ==
    {NoKlines} \cup UNION {RecentSeriesOf(n) : n \in (MinRecentKlines - 1)..MaxRecent}

\* two horizon series with a low->high pair in every horizon window
HorizonA ==
    SeriesEndingAt(Newest, MinKlines,
                   <<<<18, 19>>, <<16, 19>>, <<18, 19>>, <<18, 20>>, <<18, 19>>>>,
                   "distinct", "asc")
HorizonB ==
    SeriesEndingAt(Newest, MinKlines,
                   <<<<18, 20>>, <<18, 19>>, <<16, 19>>, <<16, 19>>, <<18, 19>>>>,
                   "distinct", "desc")

HorizonAnswers ==
    {[k48 |-> HorizonA, k96 |-> HorizonA, k21 |-> HorizonA, kdd |-> HorizonA],
     [k48 |-> HorizonB, k96 |-> HorizonA, k21 |-> HorizonB, kdd |-> HorizonB],
     [k48 |-> NoKlines, k96 |-> HorizonA, k21 |-> HorizonA, kdd |-> HorizonA],
     [k48 |-> HorizonA, k96 |-> NoKlines, k21 |-> HorizonA, kdd |-> HorizonA],
     [k48 |-> HorizonA, k96 |-> HorizonA, k21 |-> NoKlines, kdd |-> HorizonA],
     [k48 |-> HorizonA, k96 |-> HorizonA, k21 |-> HorizonA, kdd |-> NoKlines]}

Tickers ==
    {None} \cup {[lastPrice |-> p, quoteVolume |-> v] : p \in TickerPrices, v \in TickerVolumes}

Sources ==
    {[symbol |-> "SYMUSDT", ticker |-> tk, k48 |-> h.k48, k96 |-> h.k96, k21 |-> h.k21,
      kdd |-> h.kdd, recent |-> r] :
        tk \in Tickers, h \in HorizonAnswers, r \in RecentResponses}

SpanHours(k) == CandleHours * k

FilterChoices == {<<FALSE, "21d">>, <<TRUE, "48h">>, <<TRUE, "96h">>, <<TRUE, "21d">>}

Configs ==
    {[lookback_hours |-> lb,
      lookback_48h_hours |-> SpanHours(MinWindowCandles - 1),
      lookback_96h_hours |-> SpanHours(MinWindowCandles),
      lookback_21d_hours |-> SpanHours(MinWindowCandles + 1),
      min_price_change |-> 25,
      min_volume_24h |-> DefaultMinVolume,
      max_drawdown |-> 10,
      timeframe |-> "4h",
      timeframe_21d |-> "4h",
      filter_timeframe |-> f[2],
      filter_enabled |-> f[1]] :
        lb \in {SpanHours(MinRecentCandles - 2), SpanHours(MinRecentCandles - 1)},
        f \in FilterChoices}

\* the clock reads the open time of the newest interval, or runs one
\* interval behind the data source's
InitPair ==
    /\ src \in Sources
    /\ cfg \in Configs
    /\ now \in {ClockAt(Newest), ClockAt(Newest - 1)}
    /\ pair_out = Pending
    /\ klines = NoKlines
    /\ lookback_hours = 0
    /\ current_price = 0
    /\ window_out = Pending
    /\ drawdown_out = Pending
    /\ drawdown_prev = Pending
    /\ ScanIdle

CallAnalyzePair ==
    /\ pair_out = Pending
    /\ pair_out' = analyze_pair(src, cfg, now)
    /\ UNCHANGED <<klines, lookback_hours, now, current_price, window_out,
                   drawdown_out, drawdown_prev, src, cfg, scanVars>>

NextPair == CallAnalyzePair

SpecPair == InitPair /\ [][NextPair]_vars

(***************************************************************************)
(* The requests analyze_pair sends to the data source                      *)
(***************************************************************************)
\* int(lookback_hours * candles_per_hour) of analyze_time_window
window_span_candles(hours, interval) ==
    IF interval = "15m" THEN hours * 4
    ELSE IF interval = "1h" THEN hours
    ELSE IF interval = "4h" THEN hours \div 4
    ELSE IF interval = "1d" THEN hours \div 24
    ELSE hours

\* if limit > 1000: limit = 1000
capped(limit) == IF limit > KlinesLimitCap THEN KlinesLimitCap ELSE limit

window_limit(hours, interval) == capped(window_span_candles(hours, interval) + 10)

\* the limit of analyze_21d_with_drawdown, from timeframe_21d
drawdown_limit(c) ==
    capped((IF c.timeframe_21d = "1h" THEN c.lookback_21d_hours
            ELSE IF c.timeframe_21d = "4h" THEN c.lookback_21d_hours \div 4
            ELSE IF c.timeframe_21d = "1d" THEN c.lookback_21d_hours \div 24
            ELSE c.lookback_21d_hours) + 10)

\* candle_limit_recent of __init__, from timeframe
candle_limit_recent(c) ==
    (IF c.timeframe = "15m" THEN c.lookback_hours * 4
     ELSE IF c.timeframe = "1h" THEN c.lookback_hours
     ELSE c.lookback_hours \div 4) + 10

get_ticker_24hr(s) == [endpoint |-> "ticker/24hr", symbol |-> s.symbol]

get_klines(s, interval, limit) ==
    [endpoint |-> "klines", symbol |-> s.symbol, interval |-> interval, limit |-> limit]

\* the requests in the order analyze_pair sends them when nothing ends it
all_calls(s, c) ==
    <<get_ticker_24hr(s),
      get_klines(s, c.timeframe, window_limit(c.lookback_48h_hours, c.timeframe)),
      get_klines(s, c.timeframe, window_limit(c.lookback_96h_hours, c.timeframe)),
      get_klines(s, c.timeframe_21d, window_limit(c.lookback_21d_hours, c.timeframe_21d)),
      get_klines(s, c.timeframe_21d, drawdown_limit(c)),
      get_klines(s, c.timeframe, candle_limit_recent(c))>>

\* how many of them have been sent when analyze_pair returns at the site
calls_sent(site) ==
    IF site \in {"no_ticker", "exception", "volume"} THEN 1
    ELSE IF site = "no_48h" THEN 2
    ELSE IF site = "no_96h" THEN 3
    ELSE IF site = "no_21d" THEN 4
    ELSE IF site \in {"no_drawdown", "filter"} THEN 5
    ELSE 6

\* analyze_pair with the requests it has sent
analyze_pair_traced(s, c, t) ==
    LET out == analyze_pair(s, c, t)
    IN [site |-> out.site, value |-> out.value,
        calls |-> SubSeq(all_calls(s, c), 1, calls_sent(out.site))]

(***************************************************************************)
(* WebScanner.scan and the Flask handlers /scan and /download              *)
(***************************************************************************)
\* handler threads of the server, one scan request each
Requests == {1, 2}

\* what /api/v3/exchangeInfo lists
Listing ==
    <<[symbol |-> "AUSDT", quoteAsset |-> "USDT", status |-> "TRADING", isSpotTradingAllowed |-> TRUE],
      [symbol |-> "ABTC", quoteAsset |-> "BTC", status |-> "TRADING", isSpotTradingAllowed |-> TRUE],
      [symbol |-> "CUSDT", quoteAsset |-> "USDT", status |-> "BREAK", isSpotTradingAllowed |-> TRUE],
      [symbol |-> "BUSDT", quoteAsset |-> "USDT", status |-> "TRADING", isSpotTradingAllowed |-> TRUE]>>

Symbols == {"AUSDT", "BUSDT"}

\* the request fails, lists nothing, or lists Listing
ExchangeAnswers ==
    {[ok |-> FALSE, symbols |-> <<>>], [ok |-> TRUE, symbols |-> <<>>],
     [ok |-> TRUE, symbols |-> Listing]}

is_usdt_spot(sy) ==
    sy.quoteAsset = "USDT" /\ sy.status = "TRADING" /\ sy.isSpotTradingAllowed

get_all_usdt_pairs(info) ==
    IF ~info.ok THEN <<>>
    ELSE LET kept == SelectSeq(info.symbols, is_usdt_spot)
         IN [i \in 1..Len(kept) |-> kept[i].symbol]

(***************************************************************************)
(* int((current / total) * 100): the arithmetic of Python floats (binary64) *)
(* on a significand of MantissaBits bits, most significant first, each      *)
(* operation rounded to nearest, ties to even.  A float is [m, e]: the      *)
(* significand m read as an integer, times 2^e.                             *)
(***************************************************************************)
Front(b) == SubSeq(b, 1, Len(b) - 1)
Last(b) == b[Len(b)]
Zeros(n) == [i \in 1..n |-> 0]

\* 2^i modulo t
RECURSIVE PowMod(_, _)
PowMod(i, t) ==
    IF i = 0 THEN 1 % t
    ELSE LET h == PowMod(i \div 2, t)
         IN (h * h * (IF i % 2 = 1 THEN 2 ELSE 1)) % t

\* the remainder left after i steps of the long division of r by t, 0 <= r < t
DivRem(r, t, i) == (r * PowMod(i, t)) % t

\* the next n bits of r / t
DivBits(r, t, n) == [i \in 1..n |-> IF 2 * DivRem(r, t, i - 1) >= t THEN 1 ELSE 0]

\* the carry into position i of a + b + carry: generated at some position to
\* the right of i (or carried in) and propagated up to i
CarryInto(a, b, carry, i) ==
    IF \E j \in (i + 1)..(Len(a) + 1) :
          /\ IF j = Len(a) + 1 THEN carry = 1 ELSE a[j] + b[j] = 2
          /\ \A k \in (i + 1)..(j - 1) : a[k] + b[k] = 1
    THEN 1 ELSE 0

\* a + b + carry for bit strings of equal length, one bit longer
AddBits(a, b, carry) ==
    [i \in 1..(Len(a) + 1) |->
        IF i = 1 THEN CarryInto(a, b, carry, 0)
        ELSE (a[i - 1] + b[i - 1] + CarryInto(a, b, carry, i - 1)) % 2]

\* without the leading zeros
Strip(b) ==
    LET first == CHOOSE i \in 1..Len(b) : b[i] = 1 /\ \A j \in 1..(i - 1) : b[j] = 0
    IN SubSeq(b, first, Len(b))

RECURSIVE BitsToInt(_)
BitsToInt(b) == IF b = <<>> THEN 0 ELSE 2 * BitsToInt(Front(b)) + Last(b)

\* the significand one unit up; a carry out of the top renormalizes
round_up(m, e) ==
    LET x == AddBits(m, Zeros(Len(m)), 1)
    IN IF x[1] = 1 THEN [m |-> Front(x), e |-> e + 1] ELSE [m |-> Tail(x), e |-> e]

\* bits, times 2^e, rounded to MantissaBits bits
round_to_nearest_even(bits, e) ==
    LET kept == SubSeq(bits, 1, MantissaBits)
        dropped == SubSeq(bits, MantissaBits + 1, Len(bits))
        d == Len(dropped)
        above_half == d > 0 /\ dropped[1] = 1 /\ \E i \in 2..d : dropped[i] = 1
        half == d > 0 /\ dropped[1] = 1 /\ \A i \in 2..d : dropped[i] = 0
    IN IF above_half \/ (half /\ Last(kept) = 1) THEN round_up(kept, e + d)
       ELSE [m |-> kept, e |-> e + d]

\* the least k with c * 2^k >= t
RECURSIVE ShiftToOne(_, _)
ShiftToOne(c, t) == IF c >= t THEN 0 ELSE 1 + ShiftToOne(2 * c, t)

\* current / total for 0 < current <= total
float_div(c, t) ==
    LET k == ShiftToOne(c, t)
        r == c * 2^k - t
        m == <<1>> \o DivBits(r, t, MantissaBits - 1)
        rest == DivRem(r, t, MantissaBits - 1)
        e == 0 - k - (MantissaBits - 1)
    IN IF 2 * rest > t \/ (2 * rest = t /\ Last(m) = 1) THEN round_up(m, e)
       ELSE [m |-> m, e |-> e]

\* x * 100, 100 being 64 + 32 + 4
float_times_100(x) ==
    LET a == x.m \o Zeros(6)
        b == <<0>> \o x.m \o Zeros(5)
        c == Zeros(4) \o x.m \o Zeros(2)
        sum == AddBits(AddBits(a, b, 0), <<0>> \o c, 0)
    IN round_to_nearest_even(Strip(sum), x.e)

\* int(x) for x >= 0
float_int(x) ==
    IF Len(x.m) + x.e <= 0 THEN 0 ELSE BitsToInt(SubSeq(x.m, 1, Len(x.m) + x.e))

\* floor(current * 100 / total) in exact arithmetic
percentage_exact(current, total) == (current * 100) \div total

percentage(current, total) ==
    IF current = 0 THEN 0 ELSE float_int(float_times_100(float_div(current, total)))

\* update_progress of the /scan handler
update_progress(current, total, status) ==
    [current |-> current, total |-> total, status |-> status,
     percentage |-> IF total > 0 THEN percentage(current, total) ELSE 0]

ProgressStarting == [current |-> 0, total |-> 0, status |-> "starting", percentage |-> 0]
ProgressComplete == [current |-> 0, total |-> 0, status |-> "complete", percentage |-> 100]
ProgressErrorAsComplete == [current |-> 0, total |-> 0, status |-> "complete", percentage |-> 0]

ProgressError == [current |-> 0, total |-> 0, status |-> "error", percentage |-> 0]

get_filter_price_change(c, rec) ==
    IF c.filter_timeframe = "48h" THEN rec.price_change_48h
    ELSE IF c.filter_timeframe = "96h" THEN rec.price_change_96h
    ELSE IF c.filter_timeframe = "21d" THEN rec.price_change_21d
    ELSE rec.price_change_48h

\* list.sort(key=..., reverse=True): descending, equal keys keep their order
sorts_before_or_equal(c, x, y) ==
    PctLE(get_filter_price_change(c, y), get_filter_price_change(c, x))

sorts_before(c, x, y) ==
    PctLT(get_filter_price_change(c, y), get_filter_price_change(c, x))

RECURSIVE InsertDescending(_, _, _)
InsertDescending(c, x, s) ==
    IF s = <<>> THEN <<x>>
    ELSE IF sorts_before(c, x, Head(s)) THEN <<x>> \o s
    ELSE <<Head(s)>> \o InsertDescending(c, x, Tail(s))

RECURSIVE SortDescending(_, _)
SortDescending(c, s) ==
    IF s = <<>> THEN <<>>
    ELSE InsertDescending(c, s[Len(s)], SortDescending(c, SubSeq(s, 1, Len(s) - 1)))

sort_results_as_collected(c, s) == s

sort_results(c, s) == SortDescending(c, s)

\* what future.result() hands to the loop of scan for the symbol
future_result(r, sym) == analyze_pair(source[sym], req_cfg[r], now).value

collected_until_failure(rs, result) == IF result # None THEN Append(rs, result) ELSE <<>>

collected(rs, result) == IF result # None THEN Append(rs, result) ELSE rs

AnyCollected(r) == \E i \in 1..Len(pairs[r]) : task[r][pairs[r][i]] = "collected"

AllCollected(r) == \A i \in 1..Len(pairs[r]) : task[r][pairs[r][i]] = "collected"

first_rows(rs) == SubSeq(rs, 1, IF Len(rs) < ResponseLimit THEN Len(rs) ELSE ResponseLimit)

\* the list the handler installs as latest_results
stored_patched(rs) == latest_results \o rs

stored(rs) == rs

\* lines 462-463: without pairs scan returns [] to the handler at once
after_enumeration_raising(ps) == IF ps = <<>> THEN "except" ELSE "collect"

after_enumeration(ps) == IF ps = <<>> THEN "store" ELSE "collect"

(***************************************************************************)
(* The data of a scan: what the data source holds for the listed symbols   *)
(***************************************************************************)
RecentRebound ==
    SeriesEndingAt(Newest, MinRecentKlines,
                   <<<<16, 19>>, <<16, 20>>, <<16, 20>>, <<16, 20>>>>, "distinct", "asc")

GoodTicker == [lastPrice |-> 18, quoteVolume |-> DefaultMinVolume]

\* a symbol that qualifies, with 25 in every horizon
SourcePlain(sym) ==
    [symbol |-> sym, ticker |-> GoodTicker, k48 |-> HorizonA, k96 |-> HorizonA,
     k21 |-> HorizonA, kdd |-> HorizonA, recent |-> RecentRebound]

\* a symbol that qualifies, with less in the 48h horizon and 25 in the others
SourceOther(sym) == [SourcePlain(sym) EXCEPT !.k48 = HorizonB]

\* symbols whose analysis fails: a ticker that does not parse, no ticker, no candles
SourceMalformed(sym) == [SourcePlain(sym) EXCEPT !.ticker = MalformedTicker]
SourceNoTicker(sym) == [SourcePlain(sym) EXCEPT !.ticker = None]
SourceNoCandles(sym) == [SourcePlain(sym) EXCEPT !.k96 = NoKlines]

DataSources ==
    {[sym \in Symbols |-> IF sym = "AUSDT" THEN SourcePlain(sym) ELSE other] :
        other \in {SourceOther("BUSDT"), SourceMalformed("BUSDT"),
                   SourceNoTicker("BUSDT"), SourceNoCandles("BUSDT")}}

\* the forms posted: sorted by the 48h or by the 21d horizon, or malformed
RequestConfigs ==
    {c \in Configs : c.lookback_hours = SpanHours(MinRecentCandles - 1) /\ c.filter_enabled
                     /\ c.filter_timeframe \in {"48h", "21d"}}
        \cup {MalformedConfig}

(***************************************************************************)
(* Specification of the server: scan requests and a download               *)
(***************************************************************************)
Init ==
    /\ source \in DataSources
    /\ pc = [r \in Requests |-> "idle"]
    /\ req_cfg = [r \in Requests |-> None]
    /\ pairs = [r \in Requests |-> <<>>]
    /\ task = [r \in Requests |-> [sym \in Symbols |-> "none"]]
    /\ results = [r \in Requests |-> <<>>]
    /\ processed = [r \in Requests |-> 0]
    /\ response = [r \in Requests |-> None]
    /\ scan_progress = ProgressIdle
    /\ latest_results = <<>>
    /\ last_scan_time = 0
    /\ scan_lock = 0
    /\ reader_pc = "idle"
    /\ seen = None
    /\ now = ClockAt(Newest)
    /\ klines = NoKlines
    /\ lookback_hours = 0
    /\ current_price = 0
    /\ window_out = Pending
    /\ drawdown_out = Pending
    /\ drawdown_prev = Pending
    /\ src = None
    /\ cfg = None
    /\ pair_out = Pending

analyzerVars == <<klines, lookback_hours, now, current_price, window_out, drawdown_out,
                  drawdown_prev, src, cfg, pair_out, source>>

\* scan(), lines 512-526: the form is read, progress is reset, the scanner is
\* built; a form that does not parse raises
BeginScan(r) ==
    /\ pc[r] = "idle"
    /\ \E c \in RequestConfigs :
          /\ req_cfg' = [req_cfg EXCEPT ![r] = c]
          /\ pc' = [pc EXCEPT ![r] = IF c = MalformedConfig THEN "except" ELSE "scan"]
    /\ scan_progress' = ProgressStarting
    /\ UNCHANGED <<pairs, task, results, processed, response, latest_results,
                   last_scan_time, scan_lock, readerVars, analyzerVars>>

\* WebScanner.scan, lines 460-475: the pairs are fetched; none ends the scan,
\* otherwise progress is published and every pair is submitted
EnterScan(r) ==
    /\ pc[r] = "scan"
    /\ \E info \in ExchangeAnswers :
          LET ps == get_all_usdt_pairs(info) IN
          /\ pairs' = [pairs EXCEPT ![r] = ps]
          /\ pc' = [pc EXCEPT ![r] = after_enumeration(ps)]
          /\ IF ps = <<>>
             THEN UNCHANGED <<task, scan_progress>>
             ELSE /\ scan_progress' = update_progress(0, Len(ps), "Starting scan...")
                  /\ task' = [task EXCEPT ![r] =
                                 [sym \in Symbols |->
                                     IF \E i \in 1..Len(ps) : ps[i] = sym
                                     THEN "running" ELSE "none"]]
    /\ UNCHANGED <<req_cfg, results, processed, response, latest_results,
                   last_scan_time, scan_lock, readerVars, analyzerVars>>

\* a worker of the pool returns from analyze_pair
FinishTask(r, sym) ==
    /\ pc[r] = "collect"
    /\ task[r][sym] = "running"
    /\ task' = [task EXCEPT ![r][sym] = "done"]
    /\ UNCHANGED <<pc, req_cfg, pairs, results, processed, response, storeVars,
                   readerVars, analyzerVars>>

\* one round of the as_completed loop, lines 477-484
CollectTask(r, sym) ==
    /\ pc[r] = "collect"
    /\ task[r][sym] = "done"
    /\ task' = [task EXCEPT ![r][sym] = "collected"]
    /\ results' = [results EXCEPT ![r] = collected(results[r], future_result(r, sym))]
    /\ processed' = [processed EXCEPT ![r] = processed[r] + 1]
    /\ scan_progress' =
          IF (processed[r] + 1) % ProgressEvery = 0
          THEN update_progress(processed[r] + 1, Len(pairs[r]), "Scanning...")
          ELSE scan_progress
    /\ UNCHANGED <<pc, req_cfg, pairs, response, latest_results, last_scan_time,
                   scan_lock, readerVars, analyzerVars>>

\* lines 486-493: the pool is joined, progress published, the results sorted
\* and returned
SortResults(r) ==
    /\ pc[r] = "collect"
    /\ AllCollected(r)
    /\ scan_progress' = update_progress(Len(pairs[r]), Len(pairs[r]), "Sorting results...")
    /\ results' = [results EXCEPT ![r] = sort_results(req_cfg[r], results[r])]
    /\ pc' = [pc EXCEPT ![r] = "store"]
    /\ UNCHANGED <<req_cfg, pairs, task, processed, response, latest_results,
                   last_scan_time, scan_lock, readerVars, analyzerVars>>

\* line 527: the handler goes on when scanner.scan() has returned
scan_returned_or_running(r) == pc[r] \in {"collect", "store"}

scan_returned(r) == pc[r] = "store"

\* lines 529-530: scan_lock is taken and latest_results assigned
StoreResults(r) ==
    /\ scan_returned(r)
    /\ scan_lock = 0
    /\ scan_lock' = r
    /\ latest_results' = stored(results[r])
    /\ pc' = [pc EXCEPT ![r] = "store_time"]
    /\ UNCHANGED <<req_cfg, pairs, task, results, processed, response, scan_progress,
                   last_scan_time, readerVars, analyzerVars>>

\* line 531 and the end of the with block: the clock is read, the lock released
StoreTime(r) ==
    /\ pc[r] = "store_time"
    /\ last_scan_time' = last_scan_time + 1
    /\ scan_lock' = 0
    /\ pc' = [pc EXCEPT ![r] = "complete"]
    /\ UNCHANGED <<req_cfg, pairs, task, results, processed, response, scan_progress,
                   latest_results, readerVars, analyzerVars>>

\* line 533
PublishComplete(r) ==
    /\ pc[r] = "complete"
    /\ scan_progress' = ProgressComplete
    /\ pc' = [pc EXCEPT ![r] = "respond"]
    /\ UNCHANGED <<req_cfg, pairs, task, results, processed, response, latest_results,
                   last_scan_time, scan_lock, readerVars, analyzerVars>>

\* lines 536-555
Respond(r) ==
    /\ pc[r] = "respond"
    /\ response' = [response EXCEPT ![r] =
                       [success |-> TRUE, count |-> Len(results[r]),
                        results |-> first_rows(results[r]), scan_time |-> last_scan_time]]
    /\ pc' = [pc EXCEPT ![r] = "done"]
    /\ UNCHANGED <<req_cfg, pairs, task, results, processed, storeVars, readerVars,
                   analyzerVars>>

\* lines 556-558
RespondError(r) ==
    /\ pc[r] = "except"
    /\ scan_progress' = ProgressError
    /\ response' = [response EXCEPT ![r] = [success |-> FALSE, error |-> "ValueError"]]
    /\ pc' = [pc EXCEPT ![r] = "done"]
    /\ UNCHANGED <<req_cfg, pairs, task, results, processed, latest_results,
                   last_scan_time, scan_lock, readerVars, analyzerVars>>

\* download_csv / download_json: `if not latest_results`
DownloadCheck ==
    /\ reader_pc = "idle"
    /\ reader_pc' = IF latest_results = <<>> THEN "not_found" ELSE "write"
    /\ UNCHANGED <<seen, requestVars, storeVars, analyzerVars>>

\* download_csv / download_json: the rows of latest_results are written out
DownloadWrite ==
    /\ reader_pc = "write"
    /\ seen' = latest_results
    /\ reader_pc' = "sent"
    /\ UNCHANGED <<requestVars, storeVars, analyzerVars>>

Next ==
    \/ \E r \in Requests :
          \/ BeginScan(r)
          \/ EnterScan(r)
          \/ \E sym \in Symbols : FinishTask(r, sym) \/ CollectTask(r, sym)
          \/ SortResults(r)
          \/ StoreResults(r)
          \/ StoreTime(r)
          \/ PublishComplete(r)
          \/ Respond(r)
          \/ RespondError(r)
    \/ DownloadCheck
    \/ DownloadWrite

Spec == Init /\ [][Next]_vars

\* the steps of a handler thread once its request has arrived
Proceed(r) ==
    \/ EnterScan(r)
    \/ \E sym \in Symbols : FinishTask(r, sym) \/ CollectTask(r, sym)
    \/ SortResults(r)
    \/ StoreResults(r)
    \/ StoreTime(r)
    \/ PublishComplete(r)
    \/ Respond(r)
    \/ RespondError(r)

(***************************************************************************)
(* What the claims speak of, stated over the klines as delivered           *)
(***************************************************************************)
Called == window_out # Pending

\* klines of ks with timestamp >= now - hours
InWindowOf(ks, hours) ==
    {i \in DOMAIN ks : ks[i].open_ms >= (now - hours * 3600) * 1000}

LowsOf(ks, hours) == {ks[i].low : i \in InWindowOf(ks, hours)}
MinLowOf(ks, hours) == CHOOSE m \in LowsOf(ks, hours) : \A x \in LowsOf(ks, hours) : m <= x

\* timestamp of the earliest window kline holding the minimum low
MinLowHoldersOf(ks, hours) == {i \in InWindowOf(ks, hours) : ks[i].low = MinLowOf(ks, hours)}
MinLowOpenOf(ks, hours) ==
    CHOOSE t \in {ks[i].open_ms : i \in MinLowHoldersOf(ks, hours)} :
        \A i \in MinLowHoldersOf(ks, hours) : t <= ks[i].open_ms

AfterOpenOf(ks, hours, ms) == {i \in InWindowOf(ks, hours) : ks[i].open_ms > ms}
HighsAfterOf(ks, hours, ms) == {ks[i].high : i \in AfterOpenOf(ks, hours, ms)}
MaxHighAfterOf(ks, hours, ms) ==
    CHOOSE m \in HighsAfterOf(ks, hours, ms) : \A x \in HighsAfterOf(ks, hours, ms) : m >= x

\* the same of the series handed to analyze_time_window
InWindow == InWindowOf(klines, lookback_hours)
MinWindowLow == MinLowOf(klines, lookback_hours)
MinLowHolders == MinLowHoldersOf(klines, lookback_hours)
MinLowOpen == MinLowOpenOf(klines, lookback_hours)
AfterOpen(ms) == AfterOpenOf(klines, lookback_hours, ms)
MaxHighAfter(ms) == MaxHighAfterOf(klines, lookback_hours, ms)

\* C1: whenever analyze_time_window returns a result, the high anchor's
\* timestamp is strictly later than the low anchor's timestamp.
C1_HighAfterLow ==
    window_out.site = "result" => window_out.value.high_at > window_out.value.low_at

\* a result whose window holds, before the low, a high above the high anchor's
C1_Witness ==
    /\ window_out.site = "result"
    /\ window_out.value.high_at > window_out.value.low_at
    /\ \E i \in InWindow :
          /\ klines[i].open_ms < window_out.value.low_at * 1000
          /\ klines[i].high > window_out.value.high_price

\* C2: in every result, lowPrice is the minimum low over the window,
\* highPrice is the maximum high over the window candles strictly after the
\* low anchor's timestamp, and pctChange is (highPrice - lowPrice) / lowPrice * 100.
C2_Extrema ==
    window_out.site = "result" =>
        LET v == window_out.value
            lp == MinWindowLow
            hp == MaxHighAfter(v.low_at * 1000)
        IN /\ v.low_price = lp
           /\ v.high_price = hp
           /\ PctEQ(v.price_change, Pct((hp - lp) * 100, lp))

\* a result with a positive move, in a series whose klines outside the window
\* go lower than the window does
C2_Witness ==
    /\ window_out.site = "result"
    /\ window_out.value.high_price > window_out.value.low_price
    /\ window_out.value.price_change.num > 0
    /\ \E i \in DOMAIN klines : i \notin InWindow /\ klines[i].low < MinWindowLow

\* C3: analyze_time_window returns absent whenever fewer than 5 candles have
\* timestamp >= now - lookbackHours, however many candles lie outside the window.
C3_FewInWindowAbsent ==
    (Called /\ Cardinality(InWindow) < 5) => window_out.value = None

\* a series of at least 10 klines, 4 of them in the window, returned absent
C3_Witness ==
    /\ Called
    /\ Len(klines) >= 10
    /\ Cardinality(InWindow) = 4
    /\ window_out.site = "few_in_window"
    /\ window_out.value = None

\* the window has a valid low->high pair: at least 5 candles, one of them
\* strictly after the minimum-low candle, and a positive minimum low
ValidPair ==
    /\ Cardinality(InWindow) >= 5
    /\ AfterOpen(MinLowOpen) # {}
    /\ MinWindowLow > 0

\* C4 as stated: every fetched series with a valid pair yields a result.
C4_Original ==
    (Called /\ klines # NoKlines /\ ValidPair) => window_out.value # None

\* C4 amended: every fetched series of at least 10 klines with a valid pair
\* yields a result; the causes of absence are a response of fewer than 10
\* klines, fewer than 5 window candles, no candle after the low, and a
\* minimum low <= 0.
C4_Amended ==
    /\ (Called /\ Len(klines) >= 10 /\ ValidPair) => window_out.value # None
    /\ (Called /\ window_out.value = None) =>
           \/ Len(klines) < 10
           \/ Cardinality(InWindow) < 5
           \/ AfterOpen(MinLowOpen) = {}
           \/ MinWindowLow <= 0

\* a result for a series in which the minimum low is held twice, the second
\* time by the newest candle
C4_Witness ==
    /\ Called
    /\ Len(klines) >= 10
    /\ ValidPair
    /\ window_out.value # None
    /\ Cardinality(MinLowHolders) >= 2
    /\ \E i \in MinLowHolders : AfterOpen(klines[i].open_ms) = {}

\* C5: analyze_time_window returns absent when the candle holding the
\* minimum low of the window is the latest candle of the window.
C5_LowLastAbsent ==
    (Called /\ InWindow # {} /\ AfterOpen(MinLowOpen) = {}) => window_out.value = None

\* a window of at least 5 candles with a positive minimum low held by the
\* newest candle only, returned absent for want of a candle after the low
C5_Witness ==
    /\ Cardinality(InWindow) >= 5
    /\ InWindow # {}
    /\ AfterOpen(MinLowOpen) = {}
    /\ MinWindowLow > 0
    /\ window_out.site = "none_after_low"
    /\ window_out.value = None

(***************************************************************************)
(* The severity tiers as the claims state them                             *)
(***************************************************************************)
Tiers == <<"MINIMAL", "LOW", "MEDIUM", "HIGH", "CRITICAL">>
TierRank(flag) == CHOOSE r \in 1..5 : Tiers[r] = flag

\* d lies in the bucket of the tier: d is num/den with den > 0
InBucket(d, tier) ==
    CASE tier = "CRITICAL" -> d.num >= 30 * d.den
      [] tier = "HIGH"     -> d.num >= 20 * d.den /\ d.num < 30 * d.den
      [] tier = "MEDIUM"   -> d.num >= 10 * d.den /\ d.num < 20 * d.den
      [] tier = "LOW"      -> d.num >= 5 * d.den /\ d.num < 10 * d.den
      [] tier = "MINIMAL"  -> d.num < 5 * d.den

\* C6: the severity is a total function of drawdownPct with exactly one
\* bucket per value (>= 30 CRITICAL, [20,30) HIGH, [10,20) MEDIUM, [5,10) LOW,
\* below 5 MINIMAL), and a larger drawdownPct never gets a less severe tier.
C6_SeverityBuckets ==
    /\ drawdown_out.site = "result" =>
          /\ InBucket(drawdown_out.value.drawdown_21d, drawdown_out.value.drawdown_flag)
          /\ Cardinality({r \in 1..5 :
                 InBucket(drawdown_out.value.drawdown_21d, Tiers[r])}) = 1
    /\ (drawdown_out.site = "result" /\ drawdown_prev.site = "result") =>
          /\ PctLE(drawdown_prev.value.drawdown_21d, drawdown_out.value.drawdown_21d)
                => TierRank(drawdown_prev.value.drawdown_flag)
                      <= TierRank(drawdown_out.value.drawdown_flag)
          /\ PctEQ(drawdown_prev.value.drawdown_21d, drawdown_out.value.drawdown_21d)
                => drawdown_prev.value.drawdown_flag = drawdown_out.value.drawdown_flag

\* a drawdown of exactly 30 classified CRITICAL right after one of the 25..30
\* below it classified HIGH
C6_Witness ==
    /\ drawdown_out.site = "result"
    /\ drawdown_prev.site = "result"
    /\ PctEQ(drawdown_out.value.drawdown_21d, Pct(30, 1))
    /\ drawdown_out.value.drawdown_flag = "CRITICAL"
    /\ PctLT(drawdown_prev.value.drawdown_21d, Pct(30, 1))
    /\ PctLE(Pct(25, 1), drawdown_prev.value.drawdown_21d)
    /\ drawdown_prev.value.drawdown_flag = "HIGH"

(***************************************************************************)
(* The recent window of analyze_pair as the claims speak of it             *)
(***************************************************************************)
PairCalled == pair_out # Pending

\* the recent window has a low anchor and a high anchor after it
RecentAnchored ==
    /\ InWindowOf(src.recent, cfg.lookback_hours) # {}
    /\ AfterOpenOf(src.recent, cfg.lookback_hours,
                   MinLowOpenOf(src.recent, cfg.lookback_hours)) # {}

RecentLow == MinLowOf(src.recent, cfg.lookback_hours)
RecentHigh ==
    MaxHighAfterOf(src.recent, cfg.lookback_hours, MinLowOpenOf(src.recent, cfg.lookback_hours))

\* the outcome had the 24h volume been v
WithVolume(v) ==
    analyze_pair([src EXCEPT !.ticker.quoteVolume = v], cfg, now)

\* C7: every drawdown assessment, and so the drawdown_21d of every emitted
\* record, has drawdownPct >= 0 whatever series and ticker price are accepted.
C7_DrawdownNonNegative ==
    pair_out.site = "record" =>
        pair_out.value.drawdown_21d.num >= 0 /\ pair_out.value.drawdown_21d.den > 0

\* C8: analyze_pair returns absent for every symbol whose 24h quote volume is
\* strictly below min_volume_24h, even when everything else qualifies; a
\* volume equal to the minimum is not rejected by this filter.
C8_VolumeFilter ==
    (PairCalled /\ src.ticker # None) =>
        /\ src.ticker.quoteVolume < cfg.min_volume_24h => pair_out.value = None
        /\ src.ticker.quoteVolume = cfg.min_volume_24h =>
              /\ pair_out.site # "volume"
              /\ WithVolume(cfg.min_volume_24h + 1).site = "record"
                    => pair_out.site = "record"

\* a symbol one unit of volume short, rejected, that qualifies at the minimum
C8_Witness ==
    /\ PairCalled
    /\ src.ticker # None
    /\ src.ticker.quoteVolume = cfg.min_volume_24h - 1
    /\ pair_out.value = None
    /\ pair_out.site = "volume"
    /\ WithVolume(cfg.min_volume_24h).site = "record"

\* C9: analyze_pair rejects a symbol whose recent-window rebound percentage
\* is strictly below min_price_change and does not reject on this filter
\* when the rebound percentage equals min_price_change.
C9_ReboundFilter ==
    /\ pair_out.site = "record" =>
          pair_out.value.rebound_pct.num >=
              cfg.min_price_change * pair_out.value.rebound_pct.den
    /\ (PairCalled /\ RecentAnchored /\ RecentLow > 0) =>
          /\ (RecentHigh - RecentLow) * 100 < cfg.min_price_change * RecentLow
                => pair_out.value = None
          /\ (RecentHigh - RecentLow) * 100 = cfg.min_price_change * RecentLow
                => pair_out.site # "min_price_change"

\* a symbol that passes every earlier step and is rejected for a rebound
\* below the minimum
C9_Witness ==
    /\ PairCalled
    /\ RecentAnchored
    /\ RecentLow > 0
    /\ (RecentHigh - RecentLow) * 100 < cfg.min_price_change * RecentLow
    /\ pair_out.site = "min_price_change"
    /\ pair_out.value = None

\* C10: analyze_pair rejects a symbol when (recentHigh - currentPrice) /
\* recentHigh * 100 is strictly greater than max_drawdown; a pullback equal to
\* max_drawdown is accepted.
C10_PullbackFilter ==
    /\ pair_out.site = "record" =>
          pair_out.value.drawdown_from_high.num <=
              cfg.max_drawdown * pair_out.value.drawdown_from_high.den
    /\ (PairCalled /\ src.ticker # None /\ RecentAnchored /\ RecentHigh > 0) =>
          /\ (RecentHigh - src.ticker.lastPrice) * 100 > cfg.max_drawdown * RecentHigh
                => pair_out.value = None
          /\ (RecentHigh - src.ticker.lastPrice) * 100 = cfg.max_drawdown * RecentHigh
                => pair_out.site # "max_drawdown"

\* a symbol that passes every earlier step, the rebound filter included, and
\* is rejected for a pullback above the maximum
C10_Witness ==
    /\ PairCalled
    /\ src.ticker # None
    /\ RecentAnchored
    /\ (RecentHigh - src.ticker.lastPrice) * 100 > cfg.max_drawdown * RecentHigh
    /\ pair_out.site = "max_drawdown"
    /\ pair_out.value = None

\* C11: in every record emitted by analyze_pair the elapsed time between the
\* recent low anchor and high anchor (rebound_hours) is non-negative and does
\* not exceed the configured recent lookback hours.
C11_ReboundHoursBounded ==
    pair_out.site = "record" =>
        /\ pair_out.value.rebound_hours.den > 0
        /\ pair_out.value.rebound_hours.num >= 0
        /\ pair_out.value.rebound_hours.num
              <= cfg.lookback_hours * pair_out.value.rebound_hours.den

\* a record whose recent window holds two candles further apart than the
\* lookback, the anchors being exactly the lookback apart
C11_Witness ==
    /\ pair_out.site = "record"
    /\ pair_out.value.rebound_hours.num
          = cfg.lookback_hours * pair_out.value.rebound_hours.den
    /\ \E i, j \in InWindowOf(src.recent, cfg.lookback_hours) :
          src.recent[j].open_ms - src.recent[i].open_ms > cfg.lookback_hours * 3600 * 1000

(***************************************************************************)
(* Specification of the worker pool of one WebScanner.scan: the tasks are  *)
(* counted, not named                                                      *)
(***************************************************************************)
\* sizes of the universe: below, at and above max_workers
PoolSizes == {ProgressEvery, MaxWorkers} \cup ((MaxWorkers + 1)..(MaxWorkers + MaxExtra))

\* ThreadPoolExecutor(max_workers=25): a queued task starts when fewer than
\* max_workers worker threads are busy
worker_available_at_limit(running) == running <= MaxWorkers

worker_available(running) == running < MaxWorkers

otherVars == <<req_cfg, results, response, latest_results, last_scan_time, scan_lock,
               readerVars, analyzerVars>>

InitPool ==
    /\ pc = "scan"
    /\ pairs \in {[i \in 1..n |-> i] : n \in PoolSizes}
    /\ task = [queued |-> 0, running |-> 0, finished |-> 0]
    /\ processed = 0
    /\ scan_progress = ProgressStarting
    /\ source = None /\ req_cfg = None /\ results = None /\ response = None
    /\ latest_results = <<>> /\ last_scan_time = 0 /\ scan_lock = 0
    /\ reader_pc = "idle" /\ seen = None
    /\ now = 0
    /\ klines = NoKlines
    /\ lookback_hours = 0
    /\ current_price = 0
    /\ window_out = Pending
    /\ drawdown_out = Pending
    /\ drawdown_prev = Pending
    /\ src = None
    /\ cfg = None
    /\ pair_out = Pending

\* lines 465-475: progress is published and every pair is submitted
PoolSubmit ==
    /\ pc = "scan"
    /\ pc' = "collect"
    /\ scan_progress' = update_progress(0, Len(pairs), "Starting scan...")
    /\ task' = [task EXCEPT !.queued = Len(pairs)]
    /\ UNCHANGED <<pairs, processed, otherVars>>

\* a worker thread takes a task from the queue and enters analyze_pair
PoolStart ==
    /\ pc = "collect"
    /\ task.queued > 0
    /\ worker_available(task.running)
    /\ task' = [task EXCEPT !.queued = @ - 1, !.running = @ + 1]
    /\ UNCHANGED <<pc, pairs, processed, scan_progress, otherVars>>

\* a worker thread returns from analyze_pair
PoolFinish ==
    /\ pc = "collect"
    /\ task.running > 0
    /\ task' = [task EXCEPT !.running = @ - 1, !.finished = @ + 1]
    /\ UNCHANGED <<pc, pairs, processed, scan_progress, otherVars>>

\* one round of the as_completed loop, lines 477-484
PoolCollect ==
    /\ pc = "collect"
    /\ task.finished > 0
    /\ task' = [task EXCEPT !.finished = @ - 1]
    /\ processed' = processed + 1
    /\ scan_progress' =
          IF (processed + 1) % ProgressEvery = 0
          THEN update_progress(processed + 1, Len(pairs), "Scanning...")
          ELSE scan_progress
    /\ UNCHANGED <<pc, pairs, otherVars>>

\* lines 486-493
PoolReturn ==
    /\ pc = "collect"
    /\ processed = Len(pairs)
    /\ scan_progress' = update_progress(Len(pairs), Len(pairs), "Sorting results...")
    /\ pc' = "return"
    /\ UNCHANGED <<pairs, task, processed, otherVars>>

NextPool == PoolSubmit \/ PoolStart \/ PoolFinish \/ PoolCollect \/ PoolReturn

SpecPool == InitPool /\ [][NextPool]_vars

(***************************************************************************)
(* Specification of the collecting loop of one WebScanner.scan over a      *)
(* large universe: every task has finished and waits to be collected       *)
(***************************************************************************)
ProgressTotals == {ProgressEvery, ResponseLimit, 5 * ResponseLimit}

InitProgress ==
    /\ pc = "collect"
    /\ pairs \in {[i \in 1..n |-> i] : n \in ProgressTotals}
    /\ task = [queued |-> 0, running |-> 0, finished |-> Len(pairs)]
    /\ processed = 0
    /\ scan_progress = update_progress(0, Len(pairs), "Starting scan...")
    /\ source = None /\ req_cfg = None /\ results = None /\ response = None
    /\ latest_results = <<>> /\ last_scan_time = 0 /\ scan_lock = 0
    /\ reader_pc = "idle" /\ seen = None
    /\ now = 0
    /\ klines = NoKlines
    /\ lookback_hours = 0
    /\ current_price = 0
    /\ window_out = Pending
    /\ drawdown_out = Pending
    /\ drawdown_prev = Pending
    /\ src = None
    /\ cfg = None
    /\ pair_out = Pending

NextProgress == PoolCollect \/ PoolReturn

SpecProgress == InitProgress /\ [][NextProgress]_vars

(***************************************************************************)
(* Specification of one call of analyze_pair with the requests it sends,   *)
(* over the forms of the configuration                                     *)
(***************************************************************************)
CallTickers ==
    {None, MalformedTicker, GoodTicker, [GoodTicker EXCEPT !.quoteVolume = DefaultMinVolume - 1]}

CallSources ==
    {[symbol |-> "SYMUSDT", ticker |-> tk, k48 |-> h.k48, k96 |-> h.k96, k21 |-> h.k21,
      kdd |-> h.kdd, recent |-> r] :
        tk \in CallTickers,
        h \in HorizonAnswers
               \cup {[k48 |-> HorizonB, k96 |-> HorizonA, k21 |-> HorizonA, kdd |-> HorizonA]},
        r \in {NoKlines, RecentRebound}}

\* the intervals of the form, a short and a long recent lookback, a short and
\* a long 21d lookback, and the choices of the filter gate
CallConfigs ==
    {[lookback_hours |-> lb,
      lookback_48h_hours |-> SpanHours(MinWindowCandles - 1),
      lookback_96h_hours |-> SpanHours(MinWindowCandles),
      lookback_21d_hours |-> ld,
      min_price_change |-> 25,
      min_volume_24h |-> DefaultMinVolume,
      max_drawdown |-> 10,
      timeframe |-> tf,
      timeframe_21d |-> tfd,
      filter_timeframe |-> f[2],
      filter_enabled |-> f[1]] :
        lb \in {SpanHours(MinRecentCandles - 1), 248},
        ld \in {SpanHours(MinWindowCandles + 1), 5000},
        tf \in {"15m", "1h", "4h"},
        tfd \in {"1h", "4h", "1d"},
        f \in FilterChoices}

InitCalls ==
    /\ src \in CallSources
    /\ cfg \in CallConfigs
    /\ now = ClockAt(Newest)
    /\ pair_out = Pending
    /\ klines = NoKlines
    /\ lookback_hours = 0
    /\ current_price = 0
    /\ window_out = Pending
    /\ drawdown_out = Pending
    /\ drawdown_prev = Pending
    /\ ScanIdle

CallAnalyzePairTraced ==
    /\ pair_out = Pending
    /\ pair_out' = analyze_pair_traced(src, cfg, now)
    /\ UNCHANGED <<klines, lookback_hours, now, current_price, window_out,
                   drawdown_out, drawdown_prev, src, cfg, scanVars>>

NextCalls == CallAnalyzePairTraced

SpecCalls == InitCalls /\ [][NextCalls]_vars

(***************************************************************************)
(* Claims about WebScanner.scan and the handlers                           *)
(***************************************************************************)
\* the scan of request r has returned its list to the handler
Returned(r) ==
    \/ pc[r] \in {"store", "store_time", "complete", "respond"}
    \/ pc[r] = "done" /\ response[r].success

\* the record analyze_pair gives for the symbol under the request's form
RecordOf(r, sym) == analyze_pair(source[sym], req_cfg[r], now)

Qualifies(r, sym) == RecordOf(r, sym).site = "record"

Enumerated(r) == {pairs[r][i] : i \in 1..Len(pairs[r])}

Qualifying(r) == {sym \in Enumerated(r) : Qualifies(r, sym)}

SymbolsIn(rs) == {rs[i].symbol : i \in 1..Len(rs)}

FailureSites == {"no_ticker", "exception", "no_96h"}

\* C12: a failure for one symbol (ticker absent, candles absent, malformed
\* values raising an exception) makes analyze_pair return absent for that
\* symbol only; WebScanner.scan still returns, and its result holds the
\* record of every other symbol that qualifies.
C12_FailureIsolated ==
    \A r \in Requests : \A sym \in Enumerated(r) :
        RecordOf(r, sym).site \in FailureSites =>
            /\ RecordOf(r, sym).value = None
            /\ (task[r][sym] = "collected" =>
                    \A other \in Enumerated(r) :
                        (task[r][other] = "collected" /\ Qualifies(r, other)) =>
                            \E i \in 1..Len(results[r]) : results[r][i] = RecordOf(r, other).value)
            /\ (Returned(r) => sym \notin SymbolsIn(results[r]))

C12_Witness ==
    \E r \in Requests : \E sym \in Enumerated(r) :
        /\ RecordOf(r, sym).site = "exception"
        /\ pc[r] = "done"
        /\ response[r].success
        /\ SymbolsIn(results[r]) = Enumerated(r) \ {sym}
        /\ results[r] # <<>>

\* C13: of the symbols enumerated, exactly those K that pass all filters are in
\* the list WebScanner.scan returns, each once, and no other symbol, whatever
\* the order in which the workers complete.
C13_ExactlyQualifying ==
    \A r \in Requests :
        Returned(r) =>
            /\ Len(results[r]) = Cardinality(Qualifying(r))
            /\ SymbolsIn(results[r]) = Qualifying(r)
            /\ \A i, j \in 1..Len(results[r]) :
                  results[r][i].symbol = results[r][j].symbol => i = j

C13_Witness ==
    \E r, q \in Requests :
        /\ r # q
        /\ Returned(r) /\ Returned(q)
        /\ Cardinality(Qualifying(r)) = 2
        /\ Len(results[r]) = 2 /\ Len(results[q]) = 2
        /\ req_cfg[r] = req_cfg[q]
        /\ results[r][1].symbol # results[q][1].symbol

\* C14: the list WebScanner.scan returns is ordered by non-increasing value of
\* the percentage change of the selected filter horizon, and records with
\* equal values keep the order in which their tasks were collected.
C14_SortedStable ==
    [][\A r \in Requests :
          (pc[r] = "collect" /\ pc'[r] = "store") =>
              \A i, j \in 1..Len(results'[r]) :
                  i < j =>
                      /\ PctLE(get_filter_price_change(req_cfg[r], results'[r][j]),
                               get_filter_price_change(req_cfg[r], results'[r][i]))
                      /\ PctEQ(get_filter_price_change(req_cfg[r], results'[r][i]),
                               get_filter_price_change(req_cfg[r], results'[r][j]))
                            => \E k, l \in 1..Len(results[r]) :
                                  /\ k < l
                                  /\ results[r][k] = results'[r][i]
                                  /\ results[r][l] = results'[r][j]]_vars

\* a tie under the 21d horizon, collected in the order BUSDT, AUSDT and kept so
C14_Witness ==
    \E r \in Requests :
        /\ Returned(r)
        /\ req_cfg[r].filter_timeframe = "21d"
        /\ Len(results[r]) = 2
        /\ results[r][1].symbol = "BUSDT"
        /\ PctEQ(results[r][1].price_change_21d, results[r][2].price_change_21d)
        /\ ~PctEQ(results[r][1].price_change_48h, results[r][2].price_change_48h)

\* no other request has begun
Alone(r) == \A q \in Requests \ {r} : pc[q] = "idle"

\* C15: from the start of a scan to its completion the published `current`
\* never decreases, and the progress of the scan ends with current = total =
\* the number of symbols enumerated.  Stated for a scan that runs alone.
C15_ProgressMonotone ==
    [][\A r \in Requests :
          (Alone(r) /\ Alone(r)'
             /\ pc[r] \in {"scan", "collect", "store", "store_time", "complete"}) =>
              /\ scan_progress'.current >= scan_progress.current
              /\ pc'[r] = "respond" =>
                    /\ scan_progress'.current = Len(pairs[r])
                    /\ scan_progress'.total = Len(pairs[r])]_vars

\* C16: at most one request executes WebScanner.scan at any time.
C16_OneScanAtATime ==
    Cardinality({r \in Requests : pc[r] = "collect"}) <= 1

\* the request has installed its list
Installed(r) ==
    \/ pc[r] \in {"store_time", "complete", "respond"}
    \/ pc[r] = "done" /\ response[r].success

IsSorted(c, rs) ==
    \A i, j \in 1..Len(rs) :
        i < j => PctLE(get_filter_price_change(c, rs[j]), get_filter_price_change(c, rs[i]))

\* the complete sorted list of some scan that has installed one
WholeListOfAScan(rs) ==
    \E r \in Requests :
        /\ Installed(r)
        /\ rs = results[r]
        /\ SymbolsIn(rs) = Qualifying(r)
        /\ Len(rs) = Cardinality(Qualifying(r))
        /\ IsSorted(req_cfg[r], rs)

\* C17: latest_results is at every moment the list of the time before any scan
\* or the complete sorted list of one scan, and so is what a download running
\* beside a publication writes out: never a mix of two scans, never a part.
C17_ReplacedWholesale ==
    /\ latest_results = <<>> \/ WholeListOfAScan(latest_results)
    /\ reader_pc = "sent" => WholeListOfAScan(seen)

\* a download has written the list of one scan while the list of another scan
\* is installed and its lock still held
C17_Witness ==
    /\ reader_pc = "sent"
    /\ seen # <<>>
    /\ latest_results # <<>>
    /\ seen # latest_results
    /\ \E r \in Requests : pc[r] = "store_time" /\ latest_results = results[r]

\* C18: a terminal status "complete" or "error" stays until the next scan
\* begins: only the start of a scan changes scan_progress once it is terminal.
C18_TerminalStatusKept ==
    [][scan_progress.status \in {"complete", "error"} =>
          \/ scan_progress' = scan_progress
          \/ \E r \in Requests : pc[r] = "idle" /\ pc'[r] # "idle"]_vars

\* C20: when the enumeration gives no symbol (an empty listing or a failed
\* request), WebScanner.scan returns the empty list, the handler installs it,
\* publishes "complete" and answers success with count 0; no error is raised.
C20_EmptyUniverseSucceeds ==
    [][\A r \in Requests :
          /\ (pc[r] = "scan" /\ pc'[r] # "scan" /\ pairs'[r] = <<>>) =>
                /\ pc'[r] = "store"
                /\ results'[r] = <<>>
                /\ scan_progress' = scan_progress
          /\ (pairs[r] = <<>> /\ pc[r] # pc'[r]
                /\ pc[r] \in {"store", "store_time", "complete", "respond"}) =>
                /\ pc'[r] # "except"
                /\ pc[r] = "store" => latest_results' = <<>>
                /\ pc[r] = "complete" => scan_progress' = ProgressComplete
                /\ pc[r] = "respond" =>
                      /\ pc'[r] = "done"
                      /\ response'[r].success
                      /\ response'[r].count = 0
                      /\ response'[r].results = <<>>]_vars

C20_Witness ==
    \E r \in Requests :
        /\ Alone(r)
        /\ pc[r] = "done"
        /\ pairs[r] = <<>>
        /\ response[r].success /\ response[r].count = 0
        /\ latest_results = <<>>
        /\ last_scan_time > 0
        /\ scan_progress = ProgressComplete

\* C19: during WebScanner.scan never more than 25 analyze_pair tasks execute
\* at the same time, whatever the number of symbols.
C19_AtMostMaxWorkers ==
    /\ task.running <= MaxWorkers
    /\ task.queued + task.running + task.finished + processed
          = (IF pc = "scan" THEN 0 ELSE Len(pairs))

\* the pool is full while tasks wait
C19_Witness ==
    /\ pc = "collect"
    /\ Len(pairs) > MaxWorkers
    /\ task.running = MaxWorkers
    /\ task.queued > 0

\* no task of the request is running or waiting to be collected
TasksFinished(r) == \A sym \in Symbols : task[r][sym] \in {"none", "collected"}

\* C21: the list of a scan is installed in latest_results, and "complete" is
\* published, only after every task of that scan has finished; what a download
\* writes is the list of a scan all of whose tasks have finished.
C21_PublishedAfterTasks ==
    /\ \A r \in Requests : Installed(r) \/ pc[r] = "store" => TasksFinished(r)
    /\ scan_progress.status = "complete" =>
          \E r \in Requests : pc[r] \in {"respond", "done"} /\ TasksFinished(r)
    /\ latest_results # <<>> =>
          \E r \in Requests : Installed(r) /\ TasksFinished(r) /\ latest_results = results[r]
    /\ reader_pc = "sent" =>
          \E r \in Requests : Installed(r) /\ TasksFinished(r) /\ seen = results[r]

\* a download has written the list of a finished scan while the other scan has
\* collected one record and still runs a task
C21_Witness ==
    /\ reader_pc = "sent"
    /\ Len(seen) = 2
    /\ \E r \in Requests :
          /\ pc[r] = "collect"
          /\ Len(results[r]) = 1
          /\ \E sym \in Symbols : task[r][sym] = "running"

SuccessResponse(r, resp) ==
    /\ resp.success
    /\ resp.count = Len(results[r])
    /\ resp.results = first_rows(results[r])

FailureResponse(resp) == ~resp.success /\ resp.error = "ValueError"

\* what is left for the handler of the request to do
StepsLeft(r) ==
    (CASE pc[r] = "idle" -> 12 [] pc[r] = "scan" -> 11 [] pc[r] = "collect" -> 6
       [] pc[r] = "store" -> 5 [] pc[r] = "store_time" -> 4 [] pc[r] = "complete" -> 3
       [] pc[r] = "respond" -> 2 [] pc[r] = "except" -> 1 [] OTHER -> 0)
    + 2 * Cardinality({sym \in Symbols : task[r][sym] = "running"})
    + Cardinality({sym \in Symbols : task[r][sym] = "done"})

\* the handler can take a step (a finished task can always be collected, and
\* the results be sorted once all are collected), or it waits for scan_lock
\* while the holder can release it
CanProceed(r) ==
    \/ ENABLED (EnterScan(r) \/ \E sym \in Symbols : FinishTask(r, sym))
    \/ pc[r] = "collect" /\ \E sym \in Symbols : task[r][sym] = "done"
    \/ pc[r] = "collect" /\ AllCollected(r)
    \/ ENABLED (StoreResults(r) \/ StoreTime(r))
    \/ ENABLED (PublishComplete(r) \/ Respond(r) \/ RespondError(r))
    \/ /\ pc[r] = "store"
       /\ \E q \in Requests \ {r} : ENABLED StoreTime(q)

\* C22: every scan request that has arrived ends, with a success response
\* carrying the records or with a failure response carrying a message; a
\* request that fails with an exception sets status "error" and leaves
\* latest_results and last_scan_time as they were.  Ending is stated as: a
\* handler that has not answered is never stuck, and each of its steps leaves
\* it less to do.
C22_EndsWithResponse ==
    /\ [][\A r \in Requests :
            /\ (pc[r] # "done" /\ pc'[r] = "done") =>
                  \/ pc[r] = "respond" /\ SuccessResponse(r, response'[r])
                  \/ pc[r] = "except" /\ FailureResponse(response'[r])
            /\ Proceed(r) => StepsLeft(r)' < StepsLeft(r)
            /\ (pc[r] = "except" /\ pc'[r] # "except") =>
                  /\ scan_progress'.status = "error"
                  /\ latest_results' = latest_results
                  /\ last_scan_time' = last_scan_time]_vars
    /\ [](\A r \in Requests : pc[r] \notin {"idle", "done"} => CanProceed(r))

\* a request has failed after another one had installed its records
C22_Witness ==
    \E r \in Requests :
        /\ pc[r] = "done"
        /\ ~response[r].success
        /\ scan_progress.status = "error"
        /\ latest_results # <<>>
        /\ last_scan_time > 0

DistinctKeys(c, rs) ==
    \A i, j \in 1..Len(rs) :
        i # j => ~PctEQ(get_filter_price_change(c, rs[i]), get_filter_price_change(c, rs[j]))

\* the list in another order of collection
Permuted(rs, f) == [i \in 1..Len(rs) |-> rs[f[i]]]

\* C26: when the selected-horizon percentages of the qualifying records are
\* pairwise distinct, the list WebScanner.scan returns is the same for every
\* order in which the tasks complete: the sorted list is the one every other
\* order of collection sorts to, and two scans of the same data under the same
\* form return equal lists.
C26_OrderIndependent ==
    [][\A r \in Requests :
          (pc[r] = "collect" /\ pc'[r] = "store" /\ DistinctKeys(req_cfg[r], results[r])) =>
              /\ \A f \in Permutations(1..Len(results[r])) :
                    sort_results(req_cfg[r], Permuted(results[r], f)) = results'[r]
              /\ \A q \in Requests :
                    (Returned(q) /\ req_cfg[q] = req_cfg[r] /\ pairs[q] = pairs[r]) =>
                        results[q] = results'[r]]_vars

\* one scan has returned AUSDT before BUSDT; the other, under the same form,
\* has collected BUSDT before AUSDT
C26_Witness ==
    \E r, q \in Requests :
        /\ Returned(r) /\ Len(results[r]) = 2
        /\ results[r][1].symbol = "AUSDT"
        /\ DistinctKeys(req_cfg[r], results[r])
        /\ req_cfg[q] = req_cfg[r]
        /\ pc[q] = "collect" /\ Len(results[q]) = 2
        /\ results[q][1].symbol = "BUSDT"

\* C30: the count and the scan_time of a success response belong to the scan
\* whose records it carries, also when two requests overlap: the count is that
\* of the request's own list, and last_scan_time, which the response reads,
\* still is the stamp the request has stored, that is, no other store comes
\* between the store of a request and its response.
C30_ResponseOfOneScan ==
    [][\A r \in Requests :
          /\ (pc[r] = "respond" /\ pc'[r] = "done") =>
                /\ response'[r].count = Len(results[r])
                /\ response'[r].results = first_rows(results[r])
                /\ response'[r].scan_time = last_scan_time
          /\ pc[r] \in {"complete", "respond"} => last_scan_time' = last_scan_time]_vars

\* C25: while tasks complete, progress is published only when the counter of
\* completed tasks is a multiple of 10, and every published progress with
\* total > 0 has percentage = floor(processed / total * 100), within 0..100.
C25_ProgressCadence ==
    [][scan_progress' # scan_progress =>
          /\ pc' = "collect" =>
                /\ processed' % ProgressEvery = 0
                /\ scan_progress'.current = processed'
          /\ scan_progress'.total > 0 =>
                /\ scan_progress'.percentage
                      = percentage_exact(scan_progress'.current, scan_progress'.total)
                /\ scan_progress'.percentage \in 0..100]_vars

DistinctTimes(ks) == \A i, j \in 1..Len(ks) : i # j => ks[i].open_ms # ks[j].open_ms

Swapped(ks, i, j) ==
    [k \in 1..Len(ks) |-> IF k = i THEN ks[j] ELSE IF k = j THEN ks[i] ELSE ks[k]]

Rotated(ks, n) == [k \in 1..Len(ks) |-> ks[((k + n - 1) % Len(ks)) + 1]]

\* other orders of delivery of the same klines: reversed, rotated, and any two
\* klines exchanged (the exchanges generate every permutation)
Rearranged(ks) ==
    {Reverse(ks)} \cup {Rotated(ks, n) : n \in 1..(Len(ks) - 1)}
        \cup {Swapped(ks, i, j) : i, j \in 1..Len(ks)}

\* C29: the outcome of analyze_time_window does not depend on the order in
\* which the klines are delivered: for klines with pairwise distinct timestamps
\* every rearrangement gives the same anchors and percentage, or absent.
C29_OrderOfDelivery ==
    (Called /\ klines # NoKlines /\ DistinctTimes(klines)) =>
        \A ks \in Rearranged(klines) :
            analyze_time_window(ks, lookback_hours, now) = window_out

\* klines delivered newest first, with the least low held by two candles
C29_Witness ==
    /\ Called /\ klines # NoKlines /\ DistinctTimes(klines)
    /\ window_out.site = "result"
    /\ klines[1].open_ms > klines[Len(klines)].open_ms
    /\ Cardinality(MinLowHolders) > 1

\* C23: the recent-horizon analysis inside analyze_pair keeps the minimum of
\* analyze_time_window: with fewer than 5 candles in the recent lookback
\* window the symbol is rejected.
C23_RecentMinimum ==
    (PairCalled /\ Cardinality(InWindowOf(src.recent, cfg.lookback_hours)) < MinWindowCandles)
        => pair_out.site # "record"

FilterForms == BOOLEAN \X {"48h", "96h", "21d"}

WithFilter(c, f) == [c EXCEPT !.filter_enabled = f[1], !.filter_timeframe = f[2]]

\* C24: the filter gate is a no-op: with filter_enabled on or off and each of
\* the timeframes 48h, 96h, 21d, analyze_pair gives the same outcome and sends
\* the same requests to the data source.
C24_FilterGateNoOp ==
    PairCalled =>
        \A f \in FilterForms : analyze_pair_traced(src, WithFilter(cfg, f), now) = pair_out

\* a record emitted with the gate on, the selected horizon risen by less than
\* min_price_change
C24_Witness ==
    /\ PairCalled
    /\ pair_out.site = "record"
    /\ cfg.filter_enabled /\ cfg.filter_timeframe = "48h"
    /\ rebound_too_small(pair_out.value.price_change_48h, cfg)
    /\ Len(pair_out.calls) = Len(all_calls(src, cfg))

KlinesCalls(calls) == {i \in 1..Len(calls) : calls[i].endpoint = "klines"}

\* C27: every get_klines request sent while a symbol is analysed carries a
\* limit of at most 1000, the recent-horizon fetch included.
C27_LimitCapped ==
    PairCalled => \A i \in KlinesCalls(pair_out.calls) : pair_out.calls[i].limit <= KlinesLimitCap

\* C28: analysing one symbol sends one ticker request and at most 4 klines
\* requests: the three horizon windows and the recent window.
C28_AtMostFourFetches ==
    PairCalled =>
        /\ Cardinality({i \in 1..Len(pair_out.calls) : pair_out.calls[i].endpoint = "ticker/24hr"}) = 1
        /\ Cardinality(KlinesCalls(pair_out.calls)) <= 4

====
